---- MODULE Spec2Model ----
(***************************************************************************)
(* Model of the PDF editor backend (backend/app.py) and its Google Fonts   *)
(* cache (backend/google_fonts_downloader.py).                              *)
(*                                                                         *)
(* Python strings are modelled as sequences of one-character strings, so   *)
(* that split, strip, replace and the colour regex are computed character  *)
(* by character, as the interpreter computes them.                         *)
(***************************************************************************)
EXTENDS Integers, Sequences, FiniteSets, TLC

(***************************************************************************)
(* String helpers (str.split(sep)[0], str.strip, str.replace, int).        *)
(***************************************************************************)
Whitespace == {" ", "\t", "\n"}

Digits == {"0", "1", "2", "3", "4", "5", "6", "7", "8", "9"}

RECURSIVE SkipWhile(_, _, _)
\* index of the first character of s at or after i that is not in chars
SkipWhile(s, i, chars) ==
    IF i <= Len(s) /\ s[i] \in chars THEN SkipWhile(s, i + 1, chars) ELSE i

RECURSIVE FindFirst(_, _, _)
\* index of the first occurrence of character c in s at or after i, else Len(s)+1
FindFirst(s, i, c) ==
    IF i > Len(s) THEN i
    ELSE IF s[i] = c THEN i ELSE FindFirst(s, i + 1, c)

\* s.split(c)[0]
SplitFirst(s, c) == SubSeq(s, 1, FindFirst(s, 1, c) - 1)

RECURSIVE SkipBack(_, _)
\* index of the last non-whitespace character of s at or before i, else 0
SkipBack(s, i) ==
    IF i >= 1 /\ s[i] \in Whitespace THEN SkipBack(s, i - 1) ELSE i

\* s.strip()
Strip(s) == SubSeq(s, SkipWhile(s, 1, Whitespace), SkipBack(s, Len(s)))

\* s.replace(a, b) for single characters a, b
Replace(s, a, b) == [i \in 1..Len(s) |-> IF s[i] = a THEN b ELSE s[i]]

DigitValue(c) == CHOOSE n \in 0..9 : ToString(n) = c

RECURSIVE ToInt(_)
\* int(s) for a non-empty sequence of decimal digits
ToInt(s) ==
    IF Len(s) = 0 THEN 0
    ELSE 10 * ToInt(SubSeq(s, 1, Len(s) - 1)) + DigitValue(s[Len(s)])

\* the literal lit occurs in s at index i
HasLiteral(s, i, lit) ==
    /\ i + Len(lit) - 1 <= Len(s)
    /\ SubSeq(s, i, i + Len(lit) - 1) = lit

(***************************************************************************)
(* Colour parsing: re.match(r'rgb\((\d+),\s*(\d+),\s*(\d+)\)', color_rgb). *)
(* re.match anchors the pattern at the start of the string only.  The      *)
(* result of ColorMatch is <<>> for None, else the three groups.           *)
(***************************************************************************)
ColorMatch(s) ==
    LET a1 == 5                               \* after "rgb("
        b1 == SkipWhile(s, a1, Digits)        \* (\d+)
        a2 == SkipWhile(s, b1 + 1, Whitespace) \* ,\s*
        b2 == SkipWhile(s, a2, Digits)        \* (\d+)
        a3 == SkipWhile(s, b2 + 1, Whitespace) \* ,\s*
        b3 == SkipWhile(s, a3, Digits)        \* (\d+)
    IN  IF /\ HasLiteral(s, 1, <<"r", "g", "b", "(">>)
           /\ b1 > a1 /\ HasLiteral(s, b1, <<",">>)
           /\ b2 > a2 /\ HasLiteral(s, b2, <<",">>)
           /\ b3 > a3 /\ HasLiteral(s, b3, <<")">>)
        THEN << SubSeq(s, a1, b1 - 1), SubSeq(s, a2, b2 - 1), SubSeq(s, a3, b3 - 1) >>
        ELSE << >>

\* a float channel value num / den
Ratio(n, d) == [num |-> n, den |-> d]

Black == << Ratio(0, 1), Ratio(0, 1), Ratio(0, 1) >>

\* the colour triple the edit handler computes from the colour string
ParseColor(s) ==
    LET m == ColorMatch(s)
    IN  IF m # << >>
        THEN << Ratio(ToInt(m[1]), 255), Ratio(ToInt(m[2]), 255), Ratio(ToInt(m[3]), 255) >>
        ELSE Black

(***************************************************************************)
(* base64.b64encode(font_data).decode('utf-8'): bytes are 0..255, the      *)
(* result is a string over the base64 alphabet, padded with "=".           *)
(***************************************************************************)
B64Alphabet ==
    << "A", "B", "C", "D", "E", "F", "G", "H", "I", "J", "K", "L", "M",
       "N", "O", "P", "Q", "R", "S", "T", "U", "V", "W", "X", "Y", "Z",
       "a", "b", "c", "d", "e", "f", "g", "h", "i", "j", "k", "l", "m",
       "n", "o", "p", "q", "r", "s", "t", "u", "v", "w", "x", "y", "z",
       "0", "1", "2", "3", "4", "5", "6", "7", "8", "9", "+", "/" >>

B64Char(n) == B64Alphabet[n + 1]

RECURSIVE Base64(_)
Base64(data) ==
    IF Len(data) = 0 THEN << >>
    ELSE IF Len(data) = 1
    THEN << B64Char(data[1] \div 4), B64Char((data[1] % 4) * 16), "=", "=" >>
    ELSE IF Len(data) = 2
    THEN << B64Char(data[1] \div 4),
            B64Char((data[1] % 4) * 16 + data[2] \div 16),
            B64Char((data[2] % 16) * 4), "=" >>
    ELSE << B64Char(data[1] \div 4),
            B64Char((data[1] % 4) * 16 + data[2] \div 16),
            B64Char((data[2] % 16) * 4 + data[3] \div 64),
            B64Char(data[3] % 64) >> \o Base64(SubSeq(data, 4, Len(data)))

(***************************************************************************)
(* Bounds of the model.                                                    *)
(***************************************************************************)
\* number of pages of the uploaded document
NumPages == 2

\* largest number of edits in one request
MaxEdits == 2

(***************************************************************************)
(* State.                                                                  *)
(*   cache      the fonts_cache directory: file name -> bytes              *)
(*   pc         position of each thread                                    *)
(*   dfArg, dfPath, dfContent, dfResult, netCalls                          *)
(*              locals of each thread's current download_font call         *)
(*   resolved   the (family, weight, path) of every call that returned     *)
(*   nEdits, i, edit, page, color, family, doc, resp, reqLog               *)
(*              the edit_pdf request being handled by thread "req"         *)
(*   colorIn, colorOut       an isolated colour parse                      *)
(*   exDoc, exBuf, exPc, exPage, exIdx, fonts, metadata, exCalls, exResp   *)
(*              the extract_fonts request                                  *)
(***************************************************************************)
VARIABLES cache, pc, dfArg, dfPath, dfContent, dfResult, netCalls, resolved,
          nEdits, i, edit, page, color, family, doc, resp, reqLog,
          colorIn, colorOut,
          exDoc, exBuf, exPc, exPage, exIdx, fonts, metadata, exCalls, exResp

dfVars == << dfArg, dfPath, dfContent, dfResult, netCalls >>

reqVars == << nEdits, i, edit, page, color, family, doc, resp, reqLog >>

colorVars == << colorIn, colorOut >>

exVars == << exDoc, exBuf, exPc, exPage, exIdx, fonts, metadata, exCalls, exResp >>

vars == << cache, pc, dfVars, resolved, reqVars, colorVars, exVars >>

\* Flask serves requests on concurrent threads: the edit_pdf request and
\* another caller of the downloader (get_font_path)
Threads == {"req", "other"}

(***************************************************************************)
(* GoogleFontsDownloader.download_font                                     *)
(***************************************************************************)
\* family.strip().replace(' ', '+')
NormalizeFamily(f) == Replace(Strip(f), " ", "+")

\* self.cache_dir / f"{family}-{weight}.ttf"
CachePath(f, w) == NormalizeFamily(f) \o << "-", ToString(w), ".ttf" >>

\* the bytes the font host serves for a cache file name
FontData(path) == << 0, 1, 0, 0, Len(path) >>

\* the library can load the bytes as a font file
IsFont(bytes) == Len(bytes) >= 4 /\ SubSeq(bytes, 1, 4) = << 0, 1, 0, 0 >>

NoPath == << >>

\* where a thread continues after download_font returns or raises
AfterReturn(t) == IF t = "req" THEN "insert" ELSE "idle"

AfterRaise(t) == IF t = "req" THEN "fallback" ELSE "idle"

\* the request's log of its download_font calls: one more stylesheet GET
\* (line 52) counted on the call in progress
CountCssGet(t, log) ==
    IF t = "req" THEN [log EXCEPT ![Len(log)].css = @ + 1] ELSE log

\* one more font file GET (line 67) counted on the call in progress
CountFontGet(t, log) ==
    IF t = "req" THEN [log EXCEPT ![Len(log)].font = @ + 1] ELSE log

\* the outcome of the call in progress: "path" or "ValueError"
LogResult(t, log, res) ==
    IF t = "req" THEN [log EXCEPT ![Len(log)].result = res] ELSE log

NoArg == [family |-> << >>, weight |-> 0]

NoResult == [status |-> "none", path |-> NoPath]

\* entering download_font(f, w): lines 35 and 38
EnterDownload(t, f, w) ==
    /\ dfArg' = [dfArg EXCEPT ![t] = [family |-> f, weight |-> w]]
    /\ dfPath' = [dfPath EXCEPT ![t] = CachePath(f, w)]
    /\ dfContent' = [dfContent EXCEPT ![t] = << >>]
    /\ dfResult' = [dfResult EXCEPT ![t] = NoResult]
    /\ netCalls' = [netCalls EXCEPT ![t] = 0]

\* download_font returns path: its frame is gone, the caller holds the path
LeaveWithPath(t, path) ==
    /\ dfResult' = [dfResult EXCEPT ![t] = [status |-> "path", path |-> path]]
    /\ resolved' = resolved \cup
           {[family |-> dfArg[t].family, weight |-> dfArg[t].weight, path |-> path]}
    /\ dfArg' = [dfArg EXCEPT ![t] = NoArg]
    /\ dfPath' = [dfPath EXCEPT ![t] = NoPath]
    /\ dfContent' = [dfContent EXCEPT ![t] = << >>]
    /\ netCalls' = [netCalls EXCEPT ![t] = 0]
    /\ pc' = [pc EXCEPT ![t] = AfterReturn(t)]

\* download_font raises ValueError (lines 76-79): its frame is gone
LeaveWithError(t) ==
    /\ dfResult' = [dfResult EXCEPT ![t] = [status |-> "ValueError", path |-> NoPath]]
    /\ dfArg' = [dfArg EXCEPT ![t] = NoArg]
    /\ dfPath' = [dfPath EXCEPT ![t] = NoPath]
    /\ dfContent' = [dfContent EXCEPT ![t] = << >>]
    /\ netCalls' = [netCalls EXCEPT ![t] = 0]
    /\ pc' = [pc EXCEPT ![t] = AfterRaise(t)]
    /\ UNCHANGED resolved

\* a variant of ExistsCheck that ignores the cached file and always downloads
ExistsCheckIgnored(t) ==
    /\ pc[t] = "df_exists"
    /\ pc' = [pc EXCEPT ![t] = "df_css"]
    /\ UNCHANGED << cache, dfVars, resolved, reqVars, colorVars, exVars >>

\* if cache_path.exists(): return cache_path
ExistsCheck(t) ==
    /\ pc[t] = "df_exists"
    /\ IF dfPath[t] \in DOMAIN cache
       THEN /\ LeaveWithPath(t, dfPath[t])
            /\ reqLog' = LogResult(t, reqLog, "path")
       ELSE /\ pc' = [pc EXCEPT ![t] = "df_css"]
            /\ UNCHANGED << dfVars, resolved, reqLog >>
    /\ UNCHANGED << cache, nEdits, i, edit, page, color, family, doc, resp,
                    colorVars, exVars >>

\* the outcomes of requests.get(css_url) followed by the url regex
CssOutcomes == {"error", "nourl", "ok"}

\* a variant of FetchCss that asks for the stylesheet a second time when the
\* first request fails
FetchCssRetried(t) ==
    /\ pc[t] = "df_css"
    /\ \E o \in CssOutcomes :
          IF o = "ok"
          THEN /\ pc' = [pc EXCEPT ![t] = "df_font"]
               /\ netCalls' = [netCalls EXCEPT ![t] = @ + 1]
               /\ reqLog' = CountCssGet(t, reqLog)
               /\ UNCHANGED << dfArg, dfPath, dfContent, dfResult, resolved >>
          ELSE IF netCalls[t] = 0
          THEN /\ netCalls' = [netCalls EXCEPT ![t] = @ + 1]
               /\ reqLog' = CountCssGet(t, reqLog)
               /\ UNCHANGED << pc, dfArg, dfPath, dfContent, dfResult, resolved >>
          ELSE /\ LeaveWithError(t)
               /\ reqLog' = LogResult(t, CountCssGet(t, reqLog), "ValueError")
    /\ UNCHANGED << cache,
                    nEdits, i, edit, page, color, family, doc, resp,
                    colorVars, exVars >>

\* css_response = requests.get(css_url, ...); raise_for_status; re.search
FetchCss(t) ==
    /\ pc[t] = "df_css"
    /\ \E o \in CssOutcomes :
          IF o = "ok"
          THEN /\ pc' = [pc EXCEPT ![t] = "df_font"]
               /\ netCalls' = [netCalls EXCEPT ![t] = @ + 1]
               /\ reqLog' = CountCssGet(t, reqLog)
               /\ UNCHANGED << dfArg, dfPath, dfContent, dfResult, resolved >>
          ELSE /\ LeaveWithError(t)
               /\ reqLog' = LogResult(t, CountCssGet(t, reqLog), "ValueError")
    /\ UNCHANGED << cache,
                    nEdits, i, edit, page, color, family, doc, resp,
                    colorVars, exVars >>

\* a variant of FetchFont that creates the cache file before the font file is
\* fetched, so that a failed fetch leaves an empty file behind
FetchFontOpenedFirst(t) ==
    /\ pc[t] = "df_font"
    /\ cache' = (dfPath[t] :> << >>) @@ cache
    /\ \E ok \in BOOLEAN :
          IF ok
          THEN /\ pc' = [pc EXCEPT ![t] = "df_open"]
               /\ netCalls' = [netCalls EXCEPT ![t] = @ + 1]
               /\ reqLog' = CountFontGet(t, reqLog)
               /\ dfContent' = [dfContent EXCEPT ![t] = FontData(dfPath[t])]
               /\ UNCHANGED << dfArg, dfPath, dfResult, resolved >>
          ELSE /\ LeaveWithError(t)
               /\ reqLog' = LogResult(t, CountFontGet(t, reqLog), "ValueError")
    /\ UNCHANGED << nEdits, i, edit, page, color, family, doc, resp,
                    colorVars, exVars >>

\* font_response = requests.get(font_url, ...); raise_for_status
FetchFont(t) ==
    /\ pc[t] = "df_font"
    /\ \E ok \in BOOLEAN :
          IF ok
          THEN /\ pc' = [pc EXCEPT ![t] = "df_open"]
               /\ netCalls' = [netCalls EXCEPT ![t] = @ + 1]
               /\ reqLog' = CountFontGet(t, reqLog)
               /\ dfContent' = [dfContent EXCEPT ![t] = FontData(dfPath[t])]
               /\ UNCHANGED << dfArg, dfPath, dfResult, resolved >>
          ELSE /\ LeaveWithError(t)
               /\ reqLog' = LogResult(t, CountFontGet(t, reqLog), "ValueError")
    /\ UNCHANGED << cache,
                    nEdits, i, edit, page, color, family, doc, resp,
                    colorVars, exVars >>

\* the cache after a file is opened for writing: created or truncated
Truncated(c, path) == (path :> << >>) @@ c

\* the cache after the bytes are written to the open file
Written(c, path, bytes) == (path :> bytes) @@ c

\* cache_path.write_bytes(...): open(mode='wb') creates or truncates the file
OpenFile(t) ==
    /\ pc[t] = "df_open"
    /\ cache' = Truncated(cache, dfPath[t])
    /\ pc' = [pc EXCEPT ![t] = "df_write"]
    /\ UNCHANGED << dfVars, resolved, reqVars, colorVars, exVars >>

\* cache_path.write_bytes(...): f.write(font_response.content) and close
WriteFile(t) ==
    /\ pc[t] = "df_write"
    /\ cache' = Written(cache, dfPath[t], dfContent[t])
    /\ pc' = [pc EXCEPT ![t] = "df_ret"]
    /\ UNCHANGED << dfVars, resolved, reqVars, colorVars, exVars >>

\* return cache_path (after the download)
ReturnPath(t) ==
    /\ pc[t] = "df_ret"
    /\ LeaveWithPath(t, dfPath[t])
    /\ reqLog' = LogResult(t, reqLog, "path")
    /\ UNCHANGED << cache, nEdits, i, edit, page, color, family, doc, resp,
                    colorVars, exVars >>

\* the families the other caller asks for
OtherFamilies == { <<"O", "p", "e", "n", " ", "S", "a", "n", "s">> }

\* def get_font_path(self, family, weight=400): return self.download_font(...)
DefaultWeight == 400

GetFontPath(t) ==
    /\ t = "other"
    /\ pc[t] = "idle"
    /\ \E f \in OtherFamilies : EnterDownload(t, f, DefaultWeight)
    /\ pc' = [pc EXCEPT ![t] = "df_exists"]
    /\ UNCHANGED << cache, resolved, reqVars, colorVars, exVars >>

(***************************************************************************)
(* edit_pdf                                                                *)
(***************************************************************************)
\* font_name.split(',')[0].split('-')[0].strip()
DeriveFamily(fontName) == Strip(SplitFirst(SplitFirst(fontName, ","), "-"))

GenericFamilies ==
    { <<"G", "e", "o", "r", "g", "i", "a">>,
      <<"s", "e", "r", "i", "f">>,
      <<"s", "a", "n", "s", "-", "s", "e", "r", "i", "f">>,
      <<"A", "r", "i", "a", "l">>,
      <<"H", "e", "l", "v", "e", "t", "i", "c", "a">> }

\* a variant of UsesGoogleFont without the test that the family is non-empty
UsesGoogleFontUnlessListed(f) == f \notin GenericFamilies

\* if family and family not in ['Georgia', 'serif', 'sans-serif', 'Arial', 'Helvetica']
UsesGoogleFont(f) == f # << >> /\ f \notin GenericFamilies

BoldWeight == 700

\* fontname = "Helvetica-Bold" if font_weight >= 700 else "Helvetica"
Base14Font(w) == IF w >= BoldWeight THEN "Helvetica-Bold" ELSE "Helvetica"

\* doc[page_num] of the PDF library: an index >= the page count raises
\* IndexError, a negative index counts from the end (page_count is added
\* until it is non-negative)
PageInDocument(idx, n) == idx < n

RECURSIVE LoadPage(_, _)
LoadPage(idx, n) == IF idx < 0 THEN LoadPage(idx + n, n) ELSE idx

White == << Ratio(1, 1), Ratio(1, 1), Ratio(1, 1) >>

\* page.draw_rect(rect, color=(1, 1, 1), fill=(1, 1, 1)) for edit k
RectOp(k) ==
    [kind |-> "rect", edit |-> k, fontname |-> "", fontfile |-> NoPath, color |-> White]

\* page.insert_text(..., fontname=name or fontfile=file, color=c) for edit k
TextOp(k, name, file, c) ==
    [kind |-> "text", edit |-> k, fontname |-> name, fontfile |-> file, color |-> c]

\* the document with op appended to the content of page p (0-based)
Draw(d, p, op) == [d EXCEPT ![p + 1] = Append(@, op)]

PageNumbers == (0 - NumPages)..(NumPages + 1)

FontNames ==
    { << >>,
      <<"A", "r", "i", "a", "l">>,
      <<"O", "p", "e", "n", " ", "S", "a", "n", "s", " ", ",", " ",
        "s", "e", "r", "i", "f">> }

DefaultColor == <<"r", "g", "b", "(", "0", ",", " ", "0", ",", " ", "0", ")">>

EditColors == { DefaultColor }

Edits ==
    [pageNumber : PageNumbers, fontName : FontNames,
     fontWeight : {DefaultWeight, BoldWeight}, color : EditColors]

NoEdit ==
    [pageNumber |-> 1, fontName |-> << >>, fontWeight |-> DefaultWeight,
     color |-> DefaultColor]

NoResponse == [status |-> 0, pdf |-> FALSE]

\* the request arrives: the checks of lines 86-103
Receive ==
    /\ pc["req"] = "recv"
    /\ \E hasPdf, hasEdits, jsonOk, pdfOk \in BOOLEAN, n \in 0..MaxEdits :
          IF ~hasPdf \/ ~hasEdits
          THEN /\ resp' = [status |-> 400, pdf |-> FALSE]
               /\ pc' = [pc EXCEPT !["req"] = "done"]
               /\ UNCHANGED << nEdits, doc >>
          ELSE IF ~jsonOk \/ ~pdfOk
          THEN /\ resp' = [status |-> 500, pdf |-> FALSE]
               /\ pc' = [pc EXCEPT !["req"] = "done"]
               /\ UNCHANGED << nEdits, doc >>
          ELSE /\ nEdits' = n
               /\ doc' = [p \in 1..NumPages |-> << >>]
               /\ pc' = [pc EXCEPT !["req"] = "loop"]
               /\ UNCHANGED resp
    /\ UNCHANGED << cache, dfVars, resolved, i, edit, page, color, family, reqLog,
                    colorVars, exVars >>

\* at the end of an iteration the locals of the loop body are dead until the
\* next iteration assigns them: the model resets them
EndIteration ==
    /\ i' = i + 1
    /\ edit' = NoEdit
    /\ page' = 0
    /\ color' = Black
    /\ family' = << >>
    /\ dfResult' = [dfResult EXCEPT !["req"] = NoResult]
    /\ pc' = [pc EXCEPT !["req"] = "loop"]

\* for edit in edits: the next element of the list
NextEdit ==
    /\ pc["req"] = "loop"
    /\ i < nEdits
    /\ \E e \in Edits : edit' = e
    /\ pc' = [pc EXCEPT !["req"] = "edit"]
    /\ UNCHANGED << cache, dfVars, resolved, nEdits, i, page, color, family, doc,
                    resp, reqLog, colorVars, exVars >>

\* the loop body up to the font selection (lines 107-158), and the built-in
\* font branch (lines 170-181)
ProcessEdit ==
    /\ pc["req"] = "edit"
    /\ IF ~PageInDocument(edit.pageNumber - 1, Len(doc))
       THEN \* IndexError, caught at line 213
            /\ resp' = [status |-> 500, pdf |-> FALSE]
            /\ pc' = [pc EXCEPT !["req"] = "done"]
            /\ UNCHANGED << dfVars, i, edit, page, color, family, doc, reqLog >>
       ELSE LET p == LoadPage(edit.pageNumber - 1, Len(doc))
                c == ParseColor(edit.color)
                f == DeriveFamily(edit.fontName)
                d == Draw(doc, p, RectOp(i + 1))
            IN  /\ UNCHANGED resp
                /\ IF UsesGoogleFont(f)
                   THEN /\ page' = p
                        /\ color' = c
                        /\ family' = f
                        /\ EnterDownload("req", f, edit.fontWeight)
                        /\ reqLog' = Append(reqLog,
                               [edit |-> i + 1, family |-> f, weight |-> edit.fontWeight,
                                path |-> CachePath(f, edit.fontWeight),
                                css |-> 0, font |-> 0, result |-> "pending"])
                        /\ doc' = d
                        /\ pc' = [pc EXCEPT !["req"] = "df_exists"]
                        /\ UNCHANGED << i, edit >>
                   ELSE /\ doc' = Draw(d, p, TextOp(i + 1, Base14Font(edit.fontWeight),
                                                  NoPath, c))
                        /\ EndIteration
                        /\ UNCHANGED << dfArg, dfPath, dfContent, netCalls, reqLog >>
    /\ UNCHANGED << cache, resolved, nEdits, colorVars, exVars >>

\* page.insert_text(..., fontfile=str(font_path), ...): the library reads the
\* file; unreadable font bytes raise, which the except clause catches
InsertDownloaded ==
    /\ pc["req"] = "insert"
    /\ IF IsFont(cache[dfResult["req"].path])
       THEN /\ doc' = Draw(doc, page, TextOp(i + 1, "", dfResult["req"].path, color))
            /\ EndIteration
       ELSE /\ pc' = [pc EXCEPT !["req"] = "fallback"]
            /\ UNCHANGED << doc, i, edit, page, color, family, dfResult >>
    /\ UNCHANGED << cache, dfArg, dfPath, dfContent, netCalls, resolved, nEdits,
                    resp, reqLog, colorVars, exVars >>

\* a variant of Fallback without the except clause: the error of the font
\* download reaches the request's handler of line 213
FallbackMissing ==
    /\ pc["req"] = "fallback"
    /\ resp' = [status |-> 500, pdf |-> FALSE]
    /\ pc' = [pc EXCEPT !["req"] = "done"]
    /\ UNCHANGED << cache, dfVars, resolved, nEdits, i, edit, page, color, family,
                    doc, reqLog, colorVars, exVars >>

\* except Exception: insert the text with the built-in font
Fallback ==
    /\ pc["req"] = "fallback"
    /\ doc' = Draw(doc, page, TextOp(i + 1, Base14Font(edit.fontWeight), NoPath, color))
    /\ EndIteration
    /\ UNCHANGED << cache, dfArg, dfPath, dfContent, netCalls, resolved, nEdits,
                    resp, reqLog, colorVars, exVars >>

\* doc.save(output_buffer); return send_file(...)
Save ==
    /\ pc["req"] = "loop"
    /\ i = nEdits
    /\ resp' = [status |-> 200, pdf |-> TRUE]
    /\ pc' = [pc EXCEPT !["req"] = "done"]
    /\ UNCHANGED << cache, dfVars, resolved, nEdits, i, edit, page, color, family,
                    doc, reqLog, colorVars, exVars >>

(***************************************************************************)
(* The specification of the edit request running beside another caller of  *)
(* the font cache.                                                         *)
(***************************************************************************)
ColorIdle ==
    /\ colorIn = << >>
    /\ colorOut = << >>

ExtractIdle ==
    /\ exDoc = << >>
    /\ exBuf = << >>
    /\ exPc = "off"
    /\ exPage = 0
    /\ exIdx = 0
    /\ fonts = << >>
    /\ metadata = << >>
    /\ exCalls = << >>
    /\ exResp = 0

DownloaderInit ==
    /\ cache = << >>
    /\ dfArg = [t \in Threads |-> NoArg]
    /\ dfPath = [t \in Threads |-> NoPath]
    /\ dfContent = [t \in Threads |-> << >>]
    /\ dfResult = [t \in Threads |-> NoResult]
    /\ netCalls = [t \in Threads |-> 0]
    /\ resolved = {}

RequestIdle ==
    /\ nEdits = 0
    /\ i = 0
    /\ edit = NoEdit
    /\ page = 0
    /\ color = Black
    /\ family = << >>
    /\ doc = << >>
    /\ resp = NoResponse
    /\ reqLog = << >>

Init ==
    /\ DownloaderInit
    /\ pc = [t \in Threads |-> IF t = "req" THEN "recv" ELSE "idle"]
    /\ RequestIdle
    /\ ColorIdle
    /\ ExtractIdle

Next ==
    \/ Receive
    \/ NextEdit
    \/ ProcessEdit
    \/ InsertDownloaded
    \/ Fallback
    \/ Save
    \/ \E t \in Threads : GetFontPath(t)
    \/ \E t \in Threads : ExistsCheck(t)
    \/ \E t \in Threads : FetchCss(t)
    \/ \E t \in Threads : FetchFont(t)
    \/ \E t \in Threads : OpenFile(t)
    \/ \E t \in Threads : WriteFile(t)
    \/ \E t \in Threads : ReturnPath(t)

Spec == Init /\ [][Next]_vars

(***************************************************************************)
(* The colour parse of edit_pdf on its own (lines 118-132).                *)
(***************************************************************************)
ColorHeads ==
    { <<"r", "g", "b", "(">>, <<"R", "G", "B", "(">>, <<" ", "r", "g", "b", "(">>,
      <<"r", "g", "b">> }

RedTexts == { <<"0">>, <<"2", "5", "5">>, <<"2", "5", "6">>, << >> }

GreenTexts == { <<"1", "2", "8">>, <<"1", ".", "5">> }

BlueTexts == { <<"0">>, <<"9", "9", "9">> }

ColorSeps == { <<",">>, <<",", " ">>, <<" ", ",">> }

ColorTails == { <<")">>, <<")", "x">>, <<")", " ">>, << >> }

ColorStrings ==
    { h \o r \o s1 \o g \o s2 \o b \o t :
        h \in ColorHeads, r \in RedTexts, s1 \in ColorSeps, g \in GreenTexts,
        s2 \in ColorSeps, b \in BlueTexts, t \in ColorTails }

NoColor == << >>

\* color_rgb = edit.get('color', 'rgb(0, 0, 0)')
ReadColor ==
    /\ colorIn = NoColor
    /\ \E c \in ColorStrings : colorIn' = c
    /\ colorOut' = NoColor
    /\ UNCHANGED << cache, pc, dfVars, resolved, reqVars, exVars >>

\* lines 125-132
ComputeColor ==
    /\ colorIn # NoColor
    /\ colorOut = NoColor
    /\ colorOut' = ParseColor(colorIn)
    /\ UNCHANGED << cache, pc, dfVars, resolved, reqVars, colorIn, exVars >>

InitColor ==
    /\ DownloaderInit
    /\ pc = [t \in Threads |-> "off"]
    /\ RequestIdle
    /\ colorIn = NoColor
    /\ colorOut = NoColor
    /\ ExtractIdle

NextColor ==
    \/ ReadColor
    \/ ComputeColor

SpecColor == InitColor /\ [][NextColor]_vars

(***************************************************************************)
(* extract_fonts                                                           *)
(***************************************************************************)
\* largest number of pages of the document whose fonts are extracted
MaxExPages == 2

\* largest number of fonts a page references
MaxPageFonts == 2

\* the font objects of the document: two objects share a name
Xrefs == {5, 8, 9}

\* page.get_fonts(full=True) entry of a font object: font_info[0], [1], [3]
FontInfo(x) ==
    [xref |-> x,
     type |-> IF x = 9 THEN "pfa" ELSE "ttf",
     name |-> IF x = 9 THEN "Times" ELSE "ArialMT"]

\* doc.extract_font(xref) returns (basename, ext, type, content) with the
\* font program
Extracted == [raises |-> FALSE, buffer |-> << "Font", "ttf", "TrueType", << 77, 97 >> >>]

\* the ways doc.extract_font(xref) yields no font program: it raises, it
\* returns empty fields, it returns a name without content
NotExtracted(x) ==
    IF x = 5 THEN [raises |-> TRUE, buffer |-> << >>]
    ELSE IF x = 8 THEN [raises |-> FALSE, buffer |-> << "", "n/a", "n/a", << >> >>]
    ELSE [raises |-> FALSE, buffer |-> << "Font", "ttf", "TrueType", << >> >>]

\* the results of doc.extract_font over the font objects of a document
ExtractTables == { b \in [Xrefs -> {Extracted} \cup {NotExtracted(x) : x \in Xrefs}] :
                     \A x \in Xrefs : b[x] \in {Extracted, NotExtracted(x)} }

\* a page lists each font object it references once
PageFontLists ==
    { l \in UNION { [1..n -> Xrefs] : n \in 0..MaxPageFonts } :
        \A a, b \in DOMAIN l : a # b => l[a] # l[b] }

ExDocs == UNION { [1..n -> PageFontLists] : n \in 1..MaxExPages }

\* if font_buffer and font_buffer[0]: ... font_data = font_buffer[-1]; if font_data:
HasFontData(r) ==
    /\ ~r.raises
    /\ r.buffer # << >>
    /\ r.buffer[1] # ""
    /\ r.buffer[Len(r.buffer)] # << >>

\* a variant of NeedsExtract that extracts every occurrence again
NeedsExtractAlways(name, fs) == name = name

\* if font_name not in fonts:
NeedsExtract(name, fs) == name \notin DOMAIN fs

\* metadata[font_name] = {...}
FontMeta(info, buffer, pageNum) ==
    [type |-> info.type,
     ext |-> IF Len(buffer) > 1 THEN buffer[2] ELSE "bin",
     size |-> Len(buffer[Len(buffer)]),
     pages |-> << pageNum + 1 >>]

\* the request arrives: lines 28-37
ExReceive ==
    /\ exPc = "recv"
    /\ \E hasPdf, pdfOk \in BOOLEAN, d \in ExDocs, b \in ExtractTables :
          IF ~hasPdf
          THEN /\ exResp' = 400
               /\ exPc' = "done"
               /\ UNCHANGED << exDoc, exBuf, exPage, exIdx >>
          ELSE IF ~pdfOk
          THEN /\ exResp' = 500
               /\ exPc' = "done"
               /\ UNCHANGED << exDoc, exBuf, exPage, exIdx >>
          ELSE /\ exDoc' = d
               /\ exBuf' = b
               /\ exPage' = 0
               /\ exIdx' = 1
               /\ exPc' = "loop"
               /\ UNCHANGED exResp
    /\ UNCHANGED << cache, pc, dfVars, resolved, reqVars, colorVars,
                    fonts, metadata, exCalls >>

\* one iteration of "for font_info in font_list" (lines 43-64)
ExtractFont ==
    /\ exPc = "loop"
    /\ exPage < Len(exDoc)
    /\ exIdx <= Len(exDoc[exPage + 1])
    /\ LET info == FontInfo(exDoc[exPage + 1][exIdx])
           r == exBuf[info.xref]
       IN  IF NeedsExtract(info.name, fonts)
           THEN /\ exCalls' = Append(exCalls,
                       [page |-> exPage + 1, idx |-> exIdx, xref |-> info.xref])
                /\ IF HasFontData(r)
                   THEN /\ fonts' = (info.name :> Base64(r.buffer[Len(r.buffer)])) @@ fonts
                        /\ metadata' = (info.name :> FontMeta(info, r.buffer, exPage))
                                          @@ metadata
                   ELSE UNCHANGED << fonts, metadata >>
           ELSE UNCHANGED << exCalls, fonts, metadata >>
    /\ exIdx' = exIdx + 1
    /\ UNCHANGED << cache, pc, dfVars, resolved, reqVars, colorVars,
                    exDoc, exBuf, exPc, exPage, exResp >>

\* for page_num in range(len(doc)): the next page
ExNextPage ==
    /\ exPc = "loop"
    /\ exPage < Len(exDoc)
    /\ exIdx > Len(exDoc[exPage + 1])
    /\ exPage' = exPage + 1
    /\ exIdx' = 1
    /\ UNCHANGED << cache, pc, dfVars, resolved, reqVars, colorVars,
                    exDoc, exBuf, exPc, fonts, metadata, exCalls, exResp >>

\* doc.close(); return jsonify({'fonts': fonts, 'metadata': metadata})
ExRespond ==
    /\ exPc = "loop"
    /\ exPage = Len(exDoc)
    /\ exResp' = 200
    /\ exPc' = "done"
    /\ UNCHANGED << cache, pc, dfVars, resolved, reqVars, colorVars,
                    exDoc, exBuf, exPage, exIdx, fonts, metadata, exCalls >>

InitExtract ==
    /\ DownloaderInit
    /\ pc = [t \in Threads |-> "off"]
    /\ RequestIdle
    /\ ColorIdle
    /\ exDoc = << >>
    /\ exBuf = << >>
    /\ exPc = "recv"
    /\ exPage = 0
    /\ exIdx = 0
    /\ fonts = << >>
    /\ metadata = << >>
    /\ exCalls = << >>
    /\ exResp = 0

NextExtract ==
    \/ ExReceive
    \/ ExtractFont
    \/ ExNextPage
    \/ ExRespond

SpecExtract == InitExtract /\ [][NextExtract]_vars

(***************************************************************************)
(* Properties of the edit request and of the font cache (Spec).            *)
(***************************************************************************)
\* the positions of the texts inserted for edit k
TextsOfEdit(d, k) ==
    { pos \in UNION { {<< p, j >> : j \in DOMAIN d[p]} : p \in DOMAIN d } :
        d[pos[1]][pos[2]].kind = "text" /\ d[pos[1]][pos[2]].edit = k }

InDownload == {"df_exists", "df_css", "df_font", "df_open", "df_write", "df_ret"}

\* C1: an edit whose pageNumber is not in 1..N (0 and negative values
\* included) ends the request in a 500 response without a PDF, and nothing is
\* drawn for it on any page.
C1_OutOfRangePageIsFatal ==
    [][ ( /\ pc["req"] = "edit"
          /\ pc'["req"] # "edit"
          /\ edit.pageNumber \notin 1..Len(doc) )
        => ( /\ pc'["req"] = "done"
             /\ resp' = [status |-> 500, pdf |-> FALSE]
             /\ doc' = doc ) ]_vars

\* C2: every download_font call that returns a path, the cache-hit branch
\* included, returns it while the file holds the complete bytes the font host
\* serves.
C2_ReturnedFileIsComplete ==
    [][ \A t \in Threads :
          (dfResult[t].status # "path" /\ dfResult'[t].status = "path")
          => ( /\ dfResult'[t].path \in DOMAIN cache'
               /\ cache'[dfResult'[t].path] = FontData(dfResult'[t].path) ) ]_vars

\* C3 as stated: within one request the download of a key (a cache file name)
\* is attempted at most once, whatever the edits and the outcomes.
C3_OneAttemptPerKey ==
    \A a, b \in DOMAIN reqLog :
        (a # b /\ reqLog[a].path = reqLog[b].path)
        => ~(reqLog[a].css >= 1 /\ reqLog[b].css >= 1)

\* C3 as amended: download_font is called at most once per edit; a call asks
\* for the stylesheet at most once and for the font file at most once (no
\* retry); a call that failed or that downloaded did ask exactly once; a call
\* that asked for nothing found the file in the cache.
C3_OneAttemptPerEdit ==
    /\ \A a, b \in DOMAIN reqLog : a < b => reqLog[a].edit < reqLog[b].edit
    /\ \A a \in DOMAIN reqLog :
          /\ reqLog[a].css \in 0..1
          /\ reqLog[a].font \in 0..reqLog[a].css
          /\ reqLog[a].result = "ValueError" => reqLog[a].css = 1
          /\ (reqLog[a].result = "path" /\ reqLog[a].css = 1) => reqLog[a].font = 1
          /\ (reqLog[a].result = "path" /\ reqLog[a].css = 0)
                => reqLog[a].path \in DOMAIN cache
    /\ pc["req"] \in {"df_exists", "df_css"} => reqLog[Len(reqLog)].css = 0
    /\ pc["req"] = "df_font"
          => (reqLog[Len(reqLog)].css = 1 /\ reqLog[Len(reqLog)].font = 0)
    /\ pc["req"] \in {"df_open", "df_write", "df_ret"}
          => (reqLog[Len(reqLog)].css = 1 /\ reqLog[Len(reqLog)].font = 1)

\* two edits of one request name the same key, the download of the first
\* fails and the second attempts it again; the request ends with the PDF
C3_Witness ==
    /\ pc["req"] = "done"
    /\ resp.status = 200
    /\ Len(reqLog) = 2
    /\ reqLog[1].path = reqLog[2].path
    /\ reqLog[1].result = "ValueError"
    /\ reqLog[2].css = 1

\* C4: when a call for a (family, weight) pair has returned a path, a later
\* call for the same pair returns the same path from the existence check,
\* having made no network request and without touching the cache.
C4_CacheHit ==
    [][ \A t \in Threads : \A r \in resolved :
          ( /\ pc[t] = "df_exists"
            /\ pc'[t] # "df_exists"
            /\ r.family = dfArg[t].family
            /\ r.weight = dfArg[t].weight )
          => ( /\ dfResult'[t] = [status |-> "path", path |-> r.path]
               /\ netCalls[t] = 0
               /\ netCalls'[t] = 0
               /\ pc'[t] \notin InDownload
               /\ cache' = cache ) ]_vars

\* the first edit downloaded a font and used it, the second edit names the
\* same pair and its call returned without any request
C4_Witness ==
    /\ Len(reqLog) = 2
    /\ i = 2
    /\ reqLog[1].family = reqLog[2].family
    /\ reqLog[1].weight = reqLog[2].weight
    /\ reqLog[1].result = "path"
    /\ reqLog[1].font = 1
    /\ reqLog[2].result = "path"
    /\ reqLog[2].css = 0

\* C5: once the complete bytes of a key are in the cache, no step changes
\* them or removes the file.
C5_WrittenEntryIsStable ==
    [][ \A path \in DOMAIN cache :
          cache[path] = FontData(path)
          => (path \in DOMAIN cache' /\ cache'[path] = cache[path]) ]_vars

\* C6: a failed font download never aborts the request: the request is
\* aborted only by the checks on arrival or by a page index error; the edit
\* whose download failed gets its text in the built-in font (bold from weight
\* 700); every finished edit has exactly one text and no later edit has one
\* yet, so the edits are processed in order; the 200 response comes with the
\* PDF after the last edit.
C6_FontFailureNeverAborts ==
    /\ (pc["req"] = "done" /\ resp.status # 200)
          => /\ resp.status \in {400, 500}
             /\ ~resp.pdf
             /\ (doc = << >> \/ edit.pageNumber > Len(doc))
    /\ (pc["req"] = "done" /\ resp.status = 200) => (resp.pdf /\ i = nEdits)
    /\ \A k \in 1..MaxEdits :
          Cardinality(TextsOfEdit(doc, k)) = (IF k <= i THEN 1 ELSE 0)
    /\ \A a \in DOMAIN reqLog :
          reqLog[a].result = "ValueError"
          => IF reqLog[a].edit <= i
             THEN \A pos \in TextsOfEdit(doc, reqLog[a].edit) :
                     /\ doc[pos[1]][pos[2]].fontfile = NoPath
                     /\ doc[pos[1]][pos[2]].fontname =
                           (IF reqLog[a].weight >= 700 THEN "Helvetica-Bold"
                                                       ELSE "Helvetica")
             ELSE pc["req"] = "fallback"

\* the download of the first of two edits failed and the request returned
\* the PDF with both texts
C6_Witness ==
    /\ pc["req"] = "done"
    /\ resp.status = 200
    /\ nEdits = 2
    /\ Len(reqLog) >= 1
    /\ reqLog[1].edit = 1
    /\ reqLog[1].result = "ValueError"
    /\ reqLog[1].weight = 700
    /\ TextsOfEdit(doc, 2) # {}

\* C7: with an in-range page, an edit whose derived family is empty or one of
\* Georgia, serif, sans-serif, Arial, Helvetica makes no download_font call
\* and gets its text in the built-in font; any other family enters
\* download_font with (family, fontWeight), and no text of the edit is in the
\* document while the call runs.
C7_FontSelection ==
    [][ /\ (pc["req"] = "edit" /\ pc'["req"] \notin {"edit", "done"})
           => LET f == DeriveFamily(edit.fontName)
              IN  IF \/ f = << >>
                     \/ f \in { <<"G", "e", "o", "r", "g", "i", "a">>,
                                <<"s", "e", "r", "i", "f">>,
                                <<"s", "a", "n", "s", "-", "s", "e", "r", "i", "f">>,
                                <<"A", "r", "i", "a", "l">>,
                                <<"H", "e", "l", "v", "e", "t", "i", "c", "a">> }
                  THEN /\ pc'["req"] = "loop"
                       /\ reqLog' = reqLog
                       /\ dfArg' = dfArg
                       /\ \E pos \in TextsOfEdit(doc', i + 1) :
                             /\ doc'[pos[1]][pos[2]].fontfile = NoPath
                             /\ doc'[pos[1]][pos[2]].fontname \in
                                   {"Helvetica", "Helvetica-Bold"}
                  ELSE /\ pc'["req"] = "df_exists"
                       /\ dfArg'["req"] = [family |-> f, weight |-> edit.fontWeight]
                       /\ Len(reqLog') = Len(reqLog) + 1
                       /\ TextsOfEdit(doc', i + 1) = {}
        /\ pc["req"] \in InDownload => TextsOfEdit(doc, i + 1) = {} ]_vars

\* after a first edit in the built-in font, the second edit names Open Sans
\* and its download_font call has begun
C7_Witness ==
    /\ pc["req"] = "df_exists"
    /\ i = 1
    /\ dfArg["req"].family = <<"O", "p", "e", "n", " ", "S", "a", "n", "s">>
    /\ \E pos \in TextsOfEdit(doc, 1) : doc[pos[1]][pos[2]].fontname = "Helvetica-Bold"
    /\ reqLog[1].edit = 2

\* C10: a download_font call that ends in an error has changed nothing in the
\* cache: the existence check and the two fetches leave the cache as it is,
\* the error arises in one of the fetches, and a call that finds no file goes
\* on to fetch the stylesheet.
C10_FailedResolveLeavesCache ==
    [][ \A t \in Threads :
          /\ (pc[t] \in {"df_exists", "df_css", "df_font"} /\ pc'[t] # pc[t])
                => cache' = cache
          /\ (dfResult[t].status # "ValueError" /\ dfResult'[t].status = "ValueError")
                => (pc[t] \in {"df_css", "df_font"} /\ cache' = cache)
          /\ (pc[t] = "df_exists" /\ pc'[t] # pc[t] /\ dfPath[t] \notin DOMAIN cache)
                => pc'[t] = "df_css" ]_vars

\* the download of a key failed at the font file, the key is still absent
\* from the cache, and the next edit naming it has asked for the stylesheet
C10_Witness ==
    /\ Len(reqLog) = 2
    /\ reqLog[1].path = reqLog[2].path
    /\ reqLog[1].result = "ValueError"
    /\ reqLog[1].font = 1
    /\ reqLog[2].path \notin DOMAIN cache
    /\ pc["req"] = "df_font"

(***************************************************************************)
(* Properties of the colour parse (SpecColor).                             *)
(***************************************************************************)
\* two colour triples have the same channel values
SameColor(a, b) == \A k \in 1..3 : a[k].num * b[k].den = b[k].num * a[k].den

\* the whole string is rgb(R, G, B) with integers of at most 255
WholeRgbForm(s) ==
    /\ ColorMatch(s) # << >>
    /\ FindFirst(s, 1, ")") = Len(s)
    /\ \A k \in 1..3 : ToInt(ColorMatch(s)[k]) <= 255

\* C9: a string that is exactly rgb(R, G, B) with R, G, B in 0..255 parses to
\* (R/255, G/255, B/255), every other string (a channel above 255, text after
\* the closing parenthesis) parses to black, and every channel is in 0..1.
C9_ColourParsing ==
    colorOut # NoColor
    => /\ IF WholeRgbForm(colorIn)
          THEN SameColor(colorOut,
                         << Ratio(ToInt(ColorMatch(colorIn)[1]), 255),
                            Ratio(ToInt(ColorMatch(colorIn)[2]), 255),
                            Ratio(ToInt(ColorMatch(colorIn)[3]), 255) >>)
          ELSE SameColor(colorOut, Black)
       /\ \A k \in 1..3 : 0 <= colorOut[k].num /\ colorOut[k].num <= colorOut[k].den

(***************************************************************************)
(* Properties of the font extraction (SpecExtract).                        *)
(***************************************************************************)
\* the places (page, index) of the document's font references
Occurrences ==
    UNION { {<< p, k >> : k \in DOMAIN exDoc[p]} : p \in DOMAIN exDoc }

NameAt(o) == FontInfo(exDoc[o[1]][o[2]]).name

YieldsBytesAt(o) == exBuf[exDoc[o[1]][o[2]]] = Extracted

Earlier(a, b) == a[1] < b[1] \/ (a[1] = b[1] /\ a[2] < b[2])

\* o is the first place where its font name occurs
IsFirstSeen(o) ==
    \A o2 \in Occurrences : NameAt(o2) = NameAt(o) => ~Earlier(o2, o)

\* o is the first place where the extraction of its font name yields bytes
IsFirstExtracted(o) ==
    /\ YieldsBytesAt(o)
    /\ \A o2 \in Occurrences :
          (NameAt(o2) = NameAt(o) /\ YieldsBytesAt(o2)) => ~Earlier(o2, o)

CallPlaces == { << exCalls[c].page, exCalls[c].idx >> : c \in DOMAIN exCalls }

ExtractDone == exPc = "done" /\ exResp = 200

\* C8 as stated: extraction is attempted only at the first occurrence of a
\* name, the pages list of a name in the result is the page where the name was
\* first seen, and a name whose first occurrence yields no bytes is omitted.
C8_FirstOccurrenceWins ==
    ExtractDone
    => /\ \A o \in CallPlaces : IsFirstSeen(o)
       /\ \A o \in Occurrences :
             (IsFirstSeen(o) /\ NameAt(o) \in DOMAIN metadata)
             => metadata[NameAt(o)].pages = << o[1] >>
       /\ \A o \in Occurrences :
             (IsFirstSeen(o) /\ ~YieldsBytesAt(o)) => NameAt(o) \notin DOMAIN fonts

\* C8 as amended: extraction is attempted, once, at exactly the occurrences of
\* a name that no extraction yielding bytes precedes; the result holds the
\* names of which some occurrence yields bytes; the pages list of a name is
\* the single page where its extraction first yielded bytes.
C8_FirstExtractedWins ==
    ExtractDone
    => /\ CallPlaces =
             { o \in Occurrences :
                 \A o2 \in Occurrences :
                    (NameAt(o2) = NameAt(o) /\ YieldsBytesAt(o2)) => ~Earlier(o2, o) }
       /\ Cardinality(CallPlaces) = Len(exCalls)
       /\ \A a, b \in DOMAIN exCalls :
             a < b => Earlier(<< exCalls[a].page, exCalls[a].idx >>,
                              << exCalls[b].page, exCalls[b].idx >>)
       /\ DOMAIN fonts = { NameAt(o) : o \in { q \in Occurrences : YieldsBytesAt(q) } }
       /\ DOMAIN metadata = DOMAIN fonts
       /\ \A o \in Occurrences :
             IsFirstExtracted(o) => metadata[NameAt(o)].pages = << o[1] >>

\* a name whose first occurrence yields no bytes is in the result, with the
\* later page where its extraction yielded bytes
C8_Witness ==
    /\ ExtractDone
    /\ \E o \in Occurrences :
          /\ IsFirstSeen(o)
          /\ ~YieldsBytesAt(o)
          /\ NameAt(o) \in DOMAIN metadata
          /\ metadata[NameAt(o)].pages # << o[1] >>

====
